---- MODULE Spec2Model ----
(***************************************************************************)
(* A model of markup.py: the ordered cascade of regular-expression         *)
(* rewrites applied by markup(), the process-wide list preserved_blobs,    *)
(* and the final str.format() resolution of the {index} placeholders.      *)
(*                                                                         *)
(* A string is a sequence of one-character strings.  Every pattern of the  *)
(* rule table is an operator that decides whether the pattern matches at   *)
(* a given position and returns the captured groups; re.sub is the scan    *)
(* Sub, which replaces the leftmost non-overlapping matches.               *)
(***************************************************************************)
EXTENDS Integers, Sequences, FiniteSets, TLC

VARIABLES
    preserved_blobs,  \* the module-level list preserved_blobs
    text,             \* the local _ of markup(): the buffer being rewritten (its last
                      \* value once the call has ended)
    doc,              \* the argument string of the markup() call in progress
    pc,               \* "idle", "rules", "format", "returned" or "raised"
    ri,               \* index in rules of the next rule to apply
    issued,           \* what preserve() was given and returned in this call, in order
    result,           \* the value markup() returned
    error,            \* the exception markup() raised, or "none"
    after_abort       \* this call was entered on a vault an aborted call left non-empty

vars == <<preserved_blobs, text, doc, pc, ri, issued, result, error, after_abort>>

(***************************************************************************)
(* Characters and character classes                                        *)
(***************************************************************************)
NL == "\n"
QT == "\""

\* the backtick character (a TLA+ string cannot hold it)
BT == "backtick"

\* the characters re's \s and str.strip() treat as whitespace
Whitespace == {" ", "\n", "\t", "\r", "\f"}

\* the characters re's \d matches (ASCII input)
Digits == <<"0", "1", "2", "3", "4", "5", "6", "7", "8", "9">>

IsDigit(c) == \E k \in 1..10 : Digits[k] = c

DigitValue(c) == (CHOOSE k \in 1..10 : Digits[k] = c) - 1

ascii_lowercase == <<"a", "b", "c", "d", "e", "f", "g", "h", "i", "j", "k", "l", "m",
                     "n", "o", "p", "q", "r", "s", "t", "u", "v", "w", "x", "y", "z">>

ascii_uppercase == <<"A", "B", "C", "D", "E", "F", "G", "H", "I", "J", "K", "L", "M",
                     "N", "O", "P", "Q", "R", "S", "T", "U", "V", "W", "X", "Y", "Z">>

\* str.lower() on one character
LowerChar(c) ==
    IF \E k \in 1..26 : ascii_uppercase[k] = c
    THEN ascii_lowercase[CHOOSE k \in 1..26 : ascii_uppercase[k] = c]
    ELSE c

\* str.lower()
Lower(s) == [k \in 1..Len(s) |-> LowerChar(s[k])]

(***************************************************************************)
(* Sequence helpers                                                        *)
(***************************************************************************)
Min(S) == CHOOSE x \in S : \A y \in S : x <= y

Max(S) == CHOOSE x \in S : \A y \in S : x >= y

\* p occurs in t at position i
StartsAt(t, i, p) ==
    /\ i >= 1
    /\ i + Len(p) - 1 <= Len(t)
    /\ \A k \in 1..Len(p) : t[i + k - 1] = p[k]

\* the first position >= i where p occurs in t, or 0
FindFrom(t, i, p) ==
    LET S == {j \in i..Len(t) : StartsAt(t, j, p)}
    IN  IF S = {} THEN 0 ELSE Min(S)

\* the first position >= i holding the character c, or 0
FindChar(t, i, c) ==
    LET S == {j \in i..Len(t) : t[j] = c}
    IN  IF S = {} THEN 0 ELSE Min(S)

Contains(t, p) == FindFrom(t, 1, p) # 0

\* str.endswith(p)
EndsWith(s, p) == Len(p) <= Len(s) /\ StartsAt(s, Len(s) - Len(p) + 1, p)

\* the number of (possibly overlapping) occurrences of p in t
Count(t, p) == Cardinality({j \in 1..Len(t) : StartsAt(t, j, p)})

\* str(n) for a natural number
RECURSIVE Dec(_)
Dec(n) == IF n < 10 THEN <<Digits[n + 1]>> ELSE Dec(n \div 10) \o <<Digits[(n % 10) + 1]>>

\* int(s) for a string of digits
RECURSIVE ToNat(_)
ToNat(s) ==
    IF s = <<>> THEN 0
    ELSE 10 * ToNat(SubSeq(s, 1, Len(s) - 1)) + DigitValue(s[Len(s)])

\* str.strip()
Strip(s) ==
    LET K == {k \in 1..Len(s) : s[k] \notin Whitespace}
    IN  IF K = {} THEN <<>> ELSE SubSeq(s, Min(K), Max(K))

\* str.splitlines() for the line boundary "\n"
RECURSIVE SplitLines(_)
SplitLines(s) ==
    IF s = <<>> THEN <<>>
    ELSE LET e == FindChar(s, 1, NL)
         IN  IF e = 0 THEN <<s>>
             ELSE <<SubSeq(s, 1, e - 1)>> \o SplitLines(SubSeq(s, e + 1, Len(s)))

\* str.replace(old, new)
RECURSIVE ReplaceAll(_, _, _)
ReplaceAll(s, old, new) ==
    LET j == FindFrom(s, 1, old)
    IN  IF j = 0 THEN s
        ELSE SubSeq(s, 1, j - 1) \o new
             \o ReplaceAll(SubSeq(s, j + Len(old), Len(s)), old, new)

(***************************************************************************)
(* The patterns of the rule table.  Each operator decides whether its      *)
(* pattern matches t at position i (the match begins exactly at i) and     *)
(* returns [ok, end, g]: end is the position after the matched text, g the *)
(* captured groups.  Lookbehind and lookahead read t and consume nothing.  *)
(***************************************************************************)
NoMatch == [ok |-> FALSE, end |-> 0, g |-> <<>>]

Matched(e, groups) == [ok |-> TRUE, end |-> e, g |-> groups]

\* open([\S\s]+?)close : the shortest non-empty content, newlines included
LazyAny(t, i, open, close) ==
    IF ~StartsAt(t, i, open) THEN NoMatch
    ELSE LET c == i + Len(open)
             j == FindFrom(t, c + 1, close)
         IN  IF j = 0 THEN NoMatch
             ELSE Matched(j + Len(close), <<SubSeq(t, c, j - 1)>>)

\* open(.+?)close : the shortest non-empty content on one line
LazyLine(t, i, open, close) ==
    IF ~StartsAt(t, i, open) THEN NoMatch
    ELSE LET c == i + Len(open)
             j == FindFrom(t, c + 1, close)
         IN  IF j = 0 \/ \E k \in c..(j - 1) : t[k] = NL THEN NoMatch
             ELSE Matched(j + Len(close), <<SubSeq(t, c, j - 1)>>)

\* r'BT BT BT([\S\s]+?)BT BT BT', the fence of three backticks
pat_codearea(t, i) == LazyAny(t, i, <<BT, BT, BT>>, <<BT, BT, BT>>)

\* r'<(tag)([\S\s]+?)</\1>' for tag in svg, pre, style, script
pat_verbatim(t, i, tag) ==
    LET m == LazyAny(t, i, <<"<">> \o tag, <<"<", "/">> \o tag \o <<">">>)
    IN  IF m.ok THEN Matched(m.end, <<tag, m.g[1]>>) ELSE NoMatch

\* r'(?<=\n)([^\n]+):\n    ([\s\S]+?)(?=\n\n)'
pat_description(t, i) ==
    LET e == FindChar(t, i, NL)
    IN  IF \/ i <= 1
           \/ t[i - 1] # NL
           \/ e = 0
           \/ e - 1 <= i
        THEN NoMatch
        ELSE IF t[e - 1] # ":" \/ ~StartsAt(t, e, <<NL, " ", " ", " ", " ">>)
        THEN NoMatch
        ELSE LET c == e + 5
                 j == FindFrom(t, c + 1, <<NL, NL>>)
             IN  IF j = 0 THEN NoMatch
                 ELSE Matched(j, <<SubSeq(t, i, e - 2), SubSeq(t, c, j - 1)>>)

\* the common shape r'(?<=(\s|\S))\n' + marker + r'(.+)(?=\n(\s|\S))' of the
\* blockquote and list-item patterns: i holds the newline, s is the position
\* after the marker, or 0 when the marker does not match.  Groups: the
\* character before the newline, the rest of the line, the character after
\* the newline that ends the line.
LineItem(t, i, s) ==
    IF i <= 1 \/ i > Len(t) \/ s = 0 THEN NoMatch
    ELSE LET e == FindChar(t, i + 1, NL)
         IN  IF e = 0 \/ e <= s \/ e + 1 > Len(t) THEN NoMatch
             ELSE Matched(e, <<t[i - 1], SubSeq(t, s, e - 1), t[e + 1]>>)

\* the number of consecutive characters of the class C from position i on
RunLength(t, i, C) ==
    LET S == {j \in i..Len(t) : t[j] \notin C}
    IN  IF i > Len(t) THEN 0 ELSE IF S = {} THEN Len(t) - i + 1 ELSE Min(S) - i

DigitChars == {Digits[k] : k \in 1..10}

\* r'(?<=(\s|\S))\n {4,}(.+)(?=\n(\s|\S))' : the spaces are greedy and give one
\* back to (.+) when nothing but spaces is on the line
pat_blockquote(t, i) ==
    IF i > Len(t) \/ t[i] # NL THEN NoMatch
    ELSE LET k == RunLength(t, i + 1, {" "})
             e == FindChar(t, i + 1, NL)
         IN  IF k < 4 THEN NoMatch
             ELSE IF e # 0 /\ e = i + 1 + k
                  THEN (IF k >= 5 THEN LineItem(t, i, i + k) ELSE NoMatch)
                  ELSE LineItem(t, i, i + 1 + k)

\* r'(?<=(\s|\S))\n[-*] (.+)(?=\n(\s|\S))'
pat_unordered_list_item(t, i) ==
    IF i + 2 > Len(t) \/ t[i] # NL THEN NoMatch
    ELSE LineItem(t, i, IF t[i + 1] \in {"-", "*"} /\ t[i + 2] = " " THEN i + 3 ELSE 0)

\* r'(?<=(\s|\S))\n\d+[)] (.+)(?=\n(\s|\S))'
pat_ordered_list_item(t, i) ==
    IF i > Len(t) \/ t[i] # NL THEN NoMatch
    ELSE LET k == RunLength(t, i + 1, DigitChars)
         IN  LineItem(t, i, IF k >= 1 /\ StartsAt(t, i + 1 + k, <<")", " ">>)
                            THEN i + 3 + k ELSE 0)

\* r'!\[([^\]]*)\]\(([^\)]+)\)'
pat_inline(t, i) ==
    IF ~StartsAt(t, i, <<"!", "[">>) THEN NoMatch
    ELSE LET j == FindChar(t, i + 2, "]")
         IN  IF j = 0 \/ ~StartsAt(t, j, <<"]", "(">>) THEN NoMatch
             ELSE LET k == FindChar(t, j + 2, ")")
                  IN  IF k = 0 \/ k = j + 2 THEN NoMatch
                      ELSE Matched(k + 1, <<SubSeq(t, i + 2, j - 1), SubSeq(t, j + 2, k - 1)>>)

\* the shape r'(?<=\n)' + prefix + r'([^\n]+)(?=\n)' : i begins a line, s is
\* the position after the prefix, or 0 when the prefix does not match
WholeLine(t, i, s) ==
    IF i <= 1 \/ i > Len(t) \/ s = 0 THEN NoMatch
    ELSE IF t[i - 1] # NL THEN NoMatch
    ELSE LET e == FindChar(t, i, NL)
         IN  IF e = 0 \/ e <= s THEN NoMatch
             ELSE Matched(e, <<SubSeq(t, s, e - 1)>>)

\* r'(?<=\n)> ([^\n]+)(?=\n)'
pat_quote(t, i) == WholeLine(t, i, IF StartsAt(t, i, <<">", " ">>) THEN i + 2 ELSE 0)

\* r'(?<=\n)(#+) ([^\n]+)(?=\n)'
pat_heading(t, i) ==
    LET k == RunLength(t, i, {"#"})
        m == WholeLine(t, i, IF k >= 1 /\ StartsAt(t, i + k, <<" ">>) THEN i + k + 1 ELSE 0)
    IN  IF m.ok THEN Matched(m.end, <<SubSeq(t, i, i + k - 1), m.g[1]>>) ELSE NoMatch

\* r'(?<=\n)---(?=\n)'
pat_thematic_break(t, i) ==
    IF i > 1 /\ StartsAt(t, i - 1, <<NL, "-", "-", "-", NL>>)
    THEN Matched(i + 3, <<>>) ELSE NoMatch

\* r'\[(\d+)\]' followed by the literal tail (":" for a definition, nothing
\* for a reference)
pat_note(t, i, tail) ==
    IF ~StartsAt(t, i, <<"[">>) THEN NoMatch
    ELSE LET k == RunLength(t, i + 1, DigitChars)
         IN  IF k >= 1 /\ StartsAt(t, i + 1 + k, <<"]">> \o tail)
             THEN Matched(i + 2 + k + Len(tail), <<SubSeq(t, i + 1, i + k)>>)
             ELSE NoMatch

\* r'(?<=\n)([^\n]+)(?=\n)'
pat_paragraph(t, i) == WholeLine(t, i, i)

\* r'(?<=[\s>])(\d{4}/\d{2}/\d{2})(?=\s)'
pat_date(t, i) ==
    IF /\ i > 1
       /\ i + 10 <= Len(t)
       /\ t[i - 1] \in Whitespace \cup {">"}
       /\ \A k \in {0, 1, 2, 3, 5, 6, 8, 9} : IsDigit(t[i + k])
       /\ t[i + 4] = "/"
       /\ t[i + 7] = "/"
       /\ t[i + 10] \in Whitespace
    THEN Matched(i + 10, <<SubSeq(t, i, i + 9)>>)
    ELSE NoMatch

\* r'--'
pat_em_dash(t, i) == IF StartsAt(t, i, <<"-", "-">>) THEN Matched(i + 2, <<>>) ELSE NoMatch

\* r'<(https?://[^>]+?)>'
pat_anchor(t, i) ==
    LET http  == <<"<", "h", "t", "t", "p", ":", "/", "/">>
        https == <<"<", "h", "t", "t", "p", "s", ":", "/", "/">>
        c == IF StartsAt(t, i, http) THEN i + Len(http)
             ELSE IF StartsAt(t, i, https) THEN i + Len(https) ELSE 0
        j == IF c = 0 THEN 0 ELSE FindChar(t, c, ">")
    IN  IF c = 0 \/ j = 0 \/ j = c THEN NoMatch
        ELSE Matched(j + 1, <<SubSeq(t, i + 1, j - 1)>>)

\* r'\[([^\]]+?)\]\(([^\)]+?)\)'
pat_reference(t, i) ==
    IF ~StartsAt(t, i, <<"[">>) THEN NoMatch
    ELSE LET j == FindChar(t, i + 1, "]")
         IN  IF j = 0 \/ j = i + 1 \/ ~StartsAt(t, j, <<"]", "(">>) THEN NoMatch
             ELSE LET k == FindChar(t, j + 2, ")")
                  IN  IF k = 0 \/ k = j + 2 THEN NoMatch
                      ELSE Matched(k + 1, <<SubSeq(t, i + 1, j - 1), SubSeq(t, j + 2, k - 1)>>)

(***************************************************************************)
(* The slugifier translator                                                *)
(***************************************************************************)
\* slugify[ord(c)]: the table is a defaultdict(str), so a character it does
\* not hold is dropped
slugify(c) ==
    IF c \in {"_", "-", " ", "/"} THEN <<"-">>
    ELSE IF c \in DigitChars \/ (\E k \in 1..26 : ascii_lowercase[k] = c) THEN <<c>>
    ELSE IF \E k \in 1..26 : ascii_uppercase[k] = c THEN <<LowerChar(c)>>
    ELSE <<>>

\* text.translate(slugify)
translate(s) ==
    LET kept == SelectSeq(s, LAMBDA c : slugify(c) # <<>>)
    IN  [k \in 1..Len(kept) |-> slugify(kept[k])[1]]

(***************************************************************************)
(* The blob vault.  A replacement callback receives the vault and the      *)
(* tokens issued so far and returns [rep, blobs, issued, err]: the         *)
(* replacement text, the vault and tokens after it, and the exception it   *)
(* raised ("none" when it returned).                                       *)
(***************************************************************************)
Replaced(rep, c) == [rep |-> rep, blobs |-> c.blobs, issued |-> c.issued, err |-> "none"]

Raised(e, c) == [rep |-> <<>>, blobs |-> c.blobs, issued |-> c.issued, err |-> e]

\* "{%s}" % n
Token(n) == <<"{">> \o Dec(n) \o <<"}">>

\* preserve with the token numbered from 1: the length, not the last position
preserve_off_by_one(blob, c) ==
    LET appended == Append(c.blobs, blob)
        token == Token(Len(appended))
    IN  [rep |-> token, blobs |-> appended,
         issued |-> Append(c.issued, [token |-> token, blob |-> blob]), err |-> "none"]

\* preserve(blob): append, then return the token of the last position
preserve(blob, c) ==
    LET appended == Append(c.blobs, blob)
        token == Token(Len(appended) - 1)
    IN  [rep |-> token, blobs |-> appended,
         issued |-> Append(c.issued, [token |-> token, blob |-> blob]), err |-> "none"]

(***************************************************************************)
(* The replacement callbacks and templates; g holds the match's groups     *)
(***************************************************************************)
\* codearea(match) on match.group(1) = body; max() of no lines raises
codearea(body, c) ==
    LET stripped == Strip(body)
        lines == SplitLines(stripped)
        n == Len(lines)
    IN  IF n = 0 THEN Raised("ValueError", c)
        ELSE LET m == Max({Len(lines[k]) : k \in 1..n}) + 1
                 blob == <<"<", "t", "e", "x", "t", "a", "r", "e", "a", " ", "c", "l", "a",
                           "s", "s", "=", QT, "c", "o", "d", "e", "a", "r", "e", "a", QT,
                           " ", "r", "o", "w", "s", "=", QT>>
                         \o Dec(n) \o <<QT, " ", "c", "o", "l", "s", "=", QT>>
                         \o Dec(m) \o <<QT, " ", "r", "e", "a", "d", "o", "n", "l", "y", ">">>
                         \o stripped
                         \o <<"<", "/", "t", "e", "x", "t", "a", "r", "e", "a", ">">>
             IN  preserve(blob, c)

\* verbatim(match): the region with its tags, preserved
verbatim(g, c) == preserve(<<"<">> \o g[1] \o g[2] \o <<"<", "/">> \o g[1] \o <<">">>, c)

\* description(match)
description(g) ==
    <<"<", "d", "t", ">">> \o g[1] \o <<"<", "/", "d", "t", ">", NL, "<", "d", "d", ">", NL>>
    \o ReplaceAll(g[2], <<NL, " ", " ", " ", " ">>, <<NL>>)
    \o <<NL, "<", "/", "d", "d", ">">>

\* blockquote(match)
blockquote(g) ==
    LET pre  == IF g[1] = NL
                THEN <<NL, "<", "b", "l", "o", "c", "k", "q", "u", "o", "t", "e", ">">>
                ELSE <<>>
        post == IF g[3] = NL
                THEN <<"<", "/", "b", "l", "o", "c", "k", "q", "u", "o", "t", "e", ">">>
                ELSE <<NL, "<", "b", "r", "/", ">">>
    IN  pre \o g[2] \o post

\* unordered_list_item opening a container for every item
unordered_list_item_always_open(g) ==
    LET ul == <<NL, "<", "u", "l", ">", NL>>
        lu == IF g[3] = NL THEN <<"<", "/", "u", "l", ">">> ELSE <<>>
    IN  ul \o <<"<", "l", "i", ">">> \o g[2] \o <<"<", "/", "l", "i", ">", NL>> \o lu

\* unordered_list_item(match)
unordered_list_item(g) ==
    LET ul == IF g[1] = NL THEN <<NL, "<", "u", "l", ">", NL>> ELSE <<>>
        lu == IF g[3] = NL THEN <<"<", "/", "u", "l", ">">> ELSE <<>>
    IN  ul \o <<"<", "l", "i", ">">> \o g[2] \o <<"<", "/", "l", "i", ">", NL>> \o lu

\* ordered_list_item that never closes its container
ordered_list_item_unclosed(g) ==
    LET ol == IF g[1] = NL THEN <<NL, "<", "o", "l", ">", NL>> ELSE <<>>
    IN  ol \o <<"<", "l", "i", ">">> \o g[2] \o <<"<", "/", "l", "i", ">", NL>>

\* ordered_list_item(match)
ordered_list_item(g) ==
    LET ol == IF g[1] = NL THEN <<NL, "<", "o", "l", ">", NL>> ELSE <<>>
        lo == IF g[3] = NL THEN <<"<", "/", "o", "l", ">">> ELSE <<>>
    IN  ol \o <<"<", "l", "i", ">">> \o g[2] \o <<"<", "/", "l", "i", ">", NL>> \o lo

\* the suffixes inline() renders as an image, and those it inlines as code
ImageSuffixes == {<<"p", "n", "g">>, <<"j", "p", "g">>, <<"j", "p", "e", "g">>,
                  <<"g", "i", "f">>, <<"s", "v", "g">>}

CodeSuffixes == {<<"p", "y">>, <<"j", "s">>}

\* open(src).read(): the files of the working directory.  One source file
\* exists; opening any other path raises FileNotFoundError.
ReadFile(src) ==
    IF src = <<"a", ".", "p", "y">>
    THEN [found |-> TRUE,
          data |-> <<"x", " ", "=", " ", "{", "0", "}", NL, "*", "*", "y", "*", "*", NL>>]
    ELSE [found |-> FALSE, data |-> <<>>]

\* inline(match)
inline(g, c) ==
    LET title == g[1]
        src == g[2]
    IN  IF \E x \in ImageSuffixes : EndsWith(Lower(src), x)
        THEN Replaced(<<"<", "i", "m", "g", " ", "s", "r", "c", "=", QT>> \o src
                      \o <<QT, " ", "t", "i", "t", "l", "e", "=", QT>> \o title
                      \o <<QT, "/", ">">>, c)
        ELSE IF \E x \in CodeSuffixes : EndsWith(Lower(src), x)
        THEN (IF ReadFile(src).found THEN codearea(ReadFile(src).data, c)
              ELSE Raised("FileNotFoundError", c))
        ELSE Raised("RuntimeError", c)

\* heading(match)
heading(g) ==
    LET n == Dec(Len(g[1]))
    IN  <<"<", "h">> \o n \o <<" ", "i", "d", "=", QT>> \o translate(g[2]) \o <<QT, ">">>
        \o g[2] \o <<"<", "/", "h">> \o n \o <<">">>

\* paragraph(match)
paragraph(g) ==
    IF g[1][1] \in {"<", "{"} THEN g[1]
    ELSE <<"<", "p", ">">> \o g[1] \o <<"<", "/", "p", ">">>

quote(g) ==
    <<"<", "b", "l", "o", "c", "k", "q", "u", "o", "t", "e", ">">> \o g[1]
    \o <<"<", "/", "b", "l", "o", "c", "k", "q", "u", "o", "t", "e", ">">>

thematic_break == <<"<", "h", "r", "/", ">">>

note_foot(g) ==
    <<"<", "a", " ", "i", "d", "=", QT>> \o g[1]
    \o <<"f", "o", "o", "t", QT, " ", "h", "r", "e", "f", "=", QT, "#">> \o g[1]
    \o <<"t", "e", "x", "t", QT, ">", "&", "#", "9", "1", ";">> \o g[1]
    \o <<"&", "#", "9", "3", ";", "<", "/", "a", ">">>

note_text(g) ==
    <<"<", "a", " ", "i", "d", "=", QT>> \o g[1]
    \o <<"t", "e", "x", "t", QT, " ", "h", "r", "e", "f", "=", QT, "#">> \o g[1]
    \o <<"f", "o", "o", "t", QT, ">", "&", "#", "9", "1", ";">> \o g[1]
    \o <<"&", "#", "9", "3", ";", "<", "/", "a", ">">>

bold(g) == <<"<", "b", ">">> \o g[1] \o <<"<", "/", "b", ">">>

italics(g) == <<"<", "i", ">">> \o g[1] \o <<"<", "/", "i", ">">>

underline(g) == <<"<", "u", ">">> \o g[1] \o <<"<", "/", "u", ">">>

strike(g) == <<"<", "d", "e", "l", ">">> \o g[1] \o <<"<", "/", "d", "e", "l", ">">>

code(g) == <<"<", "c", "o", "d", "e", ">">> \o g[1] \o <<"<", "/", "c", "o", "d", "e", ">">>

date(g) ==
    <<"<", "s", "p", "a", "n", " ", "c", "l", "a", "s", "s", "=", QT, "d", "a", "t", "e",
      QT, ">">> \o g[1] \o <<"<", "/", "s", "p", "a", "n", ">">>

em_dash == <<"&", "m", "d", "a", "s", "h", ";">>

anchor(g) ==
    <<"<", "a", " ", "h", "r", "e", "f", "=", QT>> \o g[1] \o <<QT, ">">> \o g[1]
    \o <<"<", "/", "a", ">">>

reference(g) ==
    <<"<", "a", " ", "h", "r", "e", "f", "=", QT>> \o g[2] \o <<QT, ">">> \o g[1]
    \o <<"<", "/", "a", ">">>

(***************************************************************************)
(* The rule table and re.sub                                               *)
(***************************************************************************)
\* the rule table with italics moved before bold
rules_italics_first ==
    <<"codearea", "svg", "pre", "style", "script", "description", "blockquote",
      "unordered_list_item", "ordered_list_item", "inline", "quote", "heading",
      "thematic_break", "note_foot", "note_text", "paragraph", "italics", "bold",
      "underline", "strike", "code", "date", "em_dash", "anchor", "reference">>

\* the replacements of the rule table, in the table's order
rules ==
    <<"codearea", "svg", "pre", "style", "script", "description", "blockquote",
      "unordered_list_item", "ordered_list_item", "inline", "quote", "heading",
      "thematic_break", "note_foot", "note_text", "paragraph", "bold", "italics",
      "underline", "strike", "code", "date", "em_dash", "anchor", "reference">>

\* the pattern paired with each replacement
Match(rule, t, i) ==
    CASE rule = "codearea" -> pat_codearea(t, i)
      [] rule = "svg" -> pat_verbatim(t, i, <<"s", "v", "g">>)
      [] rule = "pre" -> pat_verbatim(t, i, <<"p", "r", "e">>)
      [] rule = "style" -> pat_verbatim(t, i, <<"s", "t", "y", "l", "e">>)
      [] rule = "script" -> pat_verbatim(t, i, <<"s", "c", "r", "i", "p", "t">>)
      [] rule = "description" -> pat_description(t, i)
      [] rule = "blockquote" -> pat_blockquote(t, i)
      [] rule = "unordered_list_item" -> pat_unordered_list_item(t, i)
      [] rule = "ordered_list_item" -> pat_ordered_list_item(t, i)
      [] rule = "inline" -> pat_inline(t, i)
      [] rule = "quote" -> pat_quote(t, i)
      [] rule = "heading" -> pat_heading(t, i)
      [] rule = "thematic_break" -> pat_thematic_break(t, i)
      [] rule = "note_foot" -> pat_note(t, i, <<":">>)
      [] rule = "note_text" -> pat_note(t, i, <<>>)
      [] rule = "paragraph" -> pat_paragraph(t, i)
      [] rule = "bold" -> LazyLine(t, i, <<"*", "*">>, <<"*", "*">>)
      [] rule = "italics" -> LazyLine(t, i, <<"*">>, <<"*">>)
      [] rule = "underline" -> LazyLine(t, i, <<"_", "_">>, <<"_", "_">>)
      [] rule = "strike" -> LazyLine(t, i, <<"~", "~">>, <<"~", "~">>)
      [] rule = "code" -> LazyLine(t, i, <<BT>>, <<BT>>)
      [] rule = "date" -> pat_date(t, i)
      [] rule = "em_dash" -> pat_em_dash(t, i)
      [] rule = "anchor" -> pat_anchor(t, i)
      [] rule = "reference" -> pat_reference(t, i)

\* the replacement of one match: a callback's return value or an expanded
\* template
Replace(rule, g, c) ==
    CASE rule = "codearea" -> codearea(g[1], c)
      [] rule \in {"svg", "pre", "style", "script"} -> verbatim(g, c)
      [] rule = "description" -> Replaced(description(g), c)
      [] rule = "blockquote" -> Replaced(blockquote(g), c)
      [] rule = "unordered_list_item" -> Replaced(unordered_list_item(g), c)
      [] rule = "ordered_list_item" -> Replaced(ordered_list_item(g), c)
      [] rule = "inline" -> inline(g, c)
      [] rule = "quote" -> Replaced(quote(g), c)
      [] rule = "heading" -> Replaced(heading(g), c)
      [] rule = "thematic_break" -> Replaced(thematic_break, c)
      [] rule = "note_foot" -> Replaced(note_foot(g), c)
      [] rule = "note_text" -> Replaced(note_text(g), c)
      [] rule = "paragraph" -> Replaced(paragraph(g), c)
      [] rule = "bold" -> Replaced(bold(g), c)
      [] rule = "italics" -> Replaced(italics(g), c)
      [] rule = "underline" -> Replaced(underline(g), c)
      [] rule = "strike" -> Replaced(strike(g), c)
      [] rule = "code" -> Replaced(code(g), c)
      [] rule = "date" -> Replaced(date(g), c)
      [] rule = "em_dash" -> Replaced(em_dash, c)
      [] rule = "anchor" -> Replaced(anchor(g), c)
      [] rule = "reference" -> Replaced(reference(g), c)

\* re.sub(fragment, replacement, t) from position i on: the leftmost match
\* at or after i is replaced, the text before it is copied, and the scan
\* resumes after the match; an exception raised by a callback ends the scan.
\* acc = [out, blobs, issued, err].
RECURSIVE Scan(_, _, _, _)
Scan(rule, t, i, acc) ==
    LET S == {j \in i..Len(t) : Match(rule, t, j).ok}
    IN  IF acc.err # "none" THEN acc
        ELSE IF S = {} THEN [acc EXCEPT !.out = @ \o SubSeq(t, i, Len(t))]
        ELSE LET j == Min(S)
                 m == Match(rule, t, j)
                 r == Replace(rule, m.g, acc)
             IN  Scan(rule, t, m.end,
                      [out |-> acc.out \o SubSeq(t, i, j - 1) \o r.rep,
                       blobs |-> r.blobs, issued |-> r.issued, err |-> r.err])

Sub(rule, t, blobs, toks) ==
    Scan(rule, t, 1, [out |-> <<>>, blobs |-> blobs, issued |-> toks, err |-> "none"])

(***************************************************************************)
(* str.format on the blobs: "{{" and "}}" are literal braces, "{}" takes   *)
(* the next argument, "{digits}" the argument of that index.  mode is      *)
(* "none", "auto" or "manual" (the two numberings cannot be mixed), nxt    *)
(* the next automatic index.  Returns [out, err].                          *)
(***************************************************************************)
FormatError(e) == [out |-> <<>>, err |-> e]

RECURSIVE Format(_, _, _, _, _)
\* the literal text lit, then what the rest of the string at i formats to
FormatThen(lit, s, i, args, mode, nxt) ==
    LET rest == Format(s, i, args, mode, nxt)
    IN  IF rest.err # "none" THEN rest ELSE [out |-> lit \o rest.out, err |-> "none"]

\* one replacement field whose name is s[b+1 .. j-1], after the literal lit.
\* A field that holds ":", "!", "." or "[" carries a format specification, a
\* conversion or an attribute or index lookup; those are not modelled, and
\* the result is the error "Unmodelled", which no document of the model
\* reaches (FormatIsModelled).
FormatField(lit, s, b, j, args, mode, nxt) ==
    LET name == SubSeq(s, b + 1, j - 1)
        auto == name = <<>>
        idx == IF auto THEN nxt ELSE ToNat(name)
    IN  IF \E k \in 1..Len(name) : name[k] \in {":", "!", ".", "["}
        THEN FormatError("Unmodelled")
        ELSE IF \E k \in 1..Len(name) : name[k] = "{" THEN FormatError("ValueError")
        ELSE IF \E k \in 1..Len(name) : ~IsDigit(name[k]) THEN FormatError("KeyError")
        ELSE IF (auto /\ mode = "manual") \/ (~auto /\ mode = "auto")
        THEN FormatError("ValueError")
        ELSE IF idx >= Len(args) THEN FormatError("IndexError")
        ELSE FormatThen(lit \o args[idx + 1], s, j + 1, args,
                        IF auto THEN "auto" ELSE "manual", IF auto THEN nxt + 1 ELSE nxt)

\* s[i..] formatted: the text up to the next brace is literal
Format(s, i, args, mode, nxt) ==
    LET B == {j \in i..Len(s) : s[j] \in {"{", "}"}}
    IN  IF B = {} THEN [out |-> SubSeq(s, i, Len(s)), err |-> "none"]
        ELSE LET b == Min(B)
                 lit == SubSeq(s, i, b - 1)
             IN  IF StartsAt(s, b, <<s[b], s[b]>>)
                 THEN FormatThen(lit \o <<s[b]>>, s, b + 2, args, mode, nxt)
                 ELSE IF s[b] = "}" THEN FormatError("ValueError")
                 ELSE LET j == FindChar(s, b + 1, "}")
                      IN  IF j = 0 THEN FormatError("ValueError")
                          ELSE FormatField(lit, s, b, j, args, mode, nxt)

\* _.strip().format(...preserved_blobs) + '\n'
Resolve(t, blobs) ==
    LET f == Format(Strip(t), 1, blobs, "none", 0)
    IN  IF f.err # "none" THEN f ELSE [out |-> f.out \o <<NL>>, err |-> "none"]

(***************************************************************************)
(* markup(string) as a state machine: the call clears the vault and wraps  *)
(* the document in newlines, then applies the rules one by one, then       *)
(* resolves the tokens.  A call may follow a call that returned or raised. *)
(***************************************************************************)
\* a clear() that leaves the list as it is
clear_nothing(blobs) == blobs

\* preserved_blobs.clear()
clear(blobs) == <<>>

\* markup(d) as a function of d alone: the rules from k on applied to t with the
\* vault b, then the resolution
RECURSIVE RunRules(_, _, _)
RunRules(t, k, b) ==
    IF k > Len(rules) THEN Resolve(t, b)
    ELSE LET r == Sub(rules[k], t, b, <<>>)
         IN  IF r.err # "none" THEN [out |-> <<>>, err |-> r.err]
             ELSE RunRules(r.out, k + 1, r.blobs)

markup(d) == RunRules(<<NL>> \o d \o <<NL>>, 1, <<>>)

Init ==
    /\ preserved_blobs = <<>>
    /\ text = <<>>
    /\ doc = <<>>
    /\ pc = "idle"
    /\ ri = 0
    /\ issued = <<>>
    /\ result = <<>>
    /\ error = "none"
    /\ after_abort = FALSE

\* markup(d) is called: lines 126-127
Call(d) ==
    /\ pc \in {"idle", "returned", "raised"}
    /\ preserved_blobs' = clear(preserved_blobs)
    /\ text' = <<NL>> \o d \o <<NL>>
    /\ doc' = d
    /\ pc' = "rules"
    /\ ri' = 1
    /\ issued' = <<>>
    /\ result' = <<>>
    /\ error' = "none"
    /\ after_abort' = (pc = "raised" /\ preserved_blobs # <<>>)

\* one turn of the loop of lines 128-129: _ = re.sub(fragment, replacement, _)
ApplyRule ==
    /\ pc = "rules"
    /\ LET r == Sub(rules[ri], text, preserved_blobs, issued)
       IN  /\ preserved_blobs' = r.blobs
           /\ issued' = r.issued
           /\ error' = r.err
           /\ text' = IF r.err = "none" THEN r.out ELSE text
           /\ pc' = IF r.err # "none" THEN "raised"
                    ELSE IF ri = Len(rules) THEN "format" ELSE "rules"
           /\ ri' = IF r.err = "none" /\ ri < Len(rules) THEN ri + 1 ELSE ri
    /\ UNCHANGED <<doc, result, after_abort>>

\* line 130: return _.strip().format(...) + '\n'
Return ==
    /\ pc = "format"
    /\ LET f == Resolve(text, preserved_blobs)
       IN  /\ error' = f.err
           /\ result' = f.out
           /\ pc' = IF f.err = "none" THEN "returned" ELSE "raised"
    /\ UNCHANGED <<preserved_blobs, text, doc, ri, issued, after_abort>>

(***************************************************************************)
(* The documents markup() is called on.  Each family is every              *)
(* concatenation of a bounded number of pieces.                            *)
(***************************************************************************)
MaxVaultPieces == 3
MaxItems == 3
MaxInlinePieces == 3
MaxExtPieces == 2

\* every concatenation of at most n members of P
RECURSIVE Words(_, _)
Words(P, n) ==
    IF n = 0 THEN {<<>>}
    ELSE LET W == Words(P, n - 1) IN W \cup {w \o x : w \in W, x \in P}

\* a fenced block holding markdown-special characters
Fence == <<BT, BT, BT, "*", "*", "[", "1", "]", "-", "-", "*", "*", BT, BT, BT>>

\* a fence, a fence of whitespace only, a verbatim region, and braces typed by
\* the author
VaultPieces ==
    { Fence,
      <<BT, BT, BT, " ", BT, BT, BT>>,
      <<"<", "p", "r", "e", ">", "[", "1", "]", "<", "/", "p", "r", "e", ">">>,
      <<"{", "0", "}">>, <<"{">>, <<"}">> }

VaultDocs == Words(VaultPieces, MaxVaultPieces)

\* a run of list-item lines of both rules, each ended by a newline, between
\* what stands before it and what stands after it
ItemLines == { <<"-", " ", "a", NL>>, <<"*", " ", "b", NL>>, <<"1", ")", " ", "c", NL>> }

ListBefore ==
    { <<>>, <<NL>>, <<"x", NL>>, <<"x", NL, NL>>, <<NL, "-", " ", "a", NL, NL>> }

ListAfter == { <<>>, <<NL>>, <<"x", NL>>, <<NL, "x", NL>> }

ListDocs ==
    { b \o r \o a : b \in ListBefore, r \in Words(ItemLines, MaxItems), a \in ListAfter }

\* one line of emphasis spans, stray stars, backticks and dashes
InlinePieces ==
    { <<"*", "*", "a", "*", "*">>, <<"*", "b", "*">>, <<"*">>, <<" ">>, <<BT>>,
      <<"-", "-">> }

BoldAndItalic ==
    <<"*", "*", "b", "o", "l", "d", "*", "*", " ", "a", "n", "d", " ",
      "*", "i", "t", "a", "l", "i", "c", "*">>

InlineDocs == Words(InlinePieces, MaxInlinePieces) \cup {BoldAndItalic}

\* one inline reference ![x](a.ext), the extension made of the parts below
ExtPieces ==
    { <<"x">>, <<"m">>, <<"p", "d", "f">>, <<"p", "n", "g">>, <<"P", "N", "G">>,
      <<"p", "y">>, <<"j", "s">> }

ResourceDocs ==
    { <<"!", "[", "x", "]", "(", "a", ".">> \o ext \o <<")">> :
        ext \in Words(ExtPieces, MaxExtPieces) }

(***************************************************************************)
(* The specifications: one per family of documents                         *)
(***************************************************************************)
CallVault == \E d \in VaultDocs : Call(d)

\* the list documents are converted by a process that calls markup() once
CallList == pc = "idle" /\ \E d \in ListDocs : Call(d)

CallInline == \E d \in InlineDocs : Call(d)

CallResource == \E d \in ResourceDocs : Call(d)

Next == CallVault \/ ApplyRule \/ Return

NextLists == CallList \/ ApplyRule \/ Return

NextInline == CallInline \/ ApplyRule \/ Return

NextResource == CallResource \/ ApplyRule \/ Return

Spec == Init /\ [][Next]_vars

SpecLists == Init /\ [][NextLists]_vars

SpecInline == Init /\ [][NextInline]_vars

SpecResource == Init /\ [][NextResource]_vars

\* no document of the model reaches the part of str.format that is not modelled
FormatIsModelled == error # "Unmodelled"

(***************************************************************************)
(* The vault across calls (process Spec).                                  *)
(***************************************************************************)
\* C1: in any sequence of calls, calls that raised after preserving fragments
\* included, the vault is empty when a call starts applying its rules and it
\* holds only what this call preserved; what the call returns or raises is
\* what markup computes from the document alone, starting from an empty vault.
VaultEmptyAtStart ==
    /\ (pc = "rules" /\ ri = 1) => preserved_blobs = <<>>
    /\ pc # "idle" => Len(preserved_blobs) = Len(issued)
    /\ pc = "returned" => markup(doc) = [out |-> result, err |-> "none"]
    /\ pc = "raised" => markup(doc).err = error

\* a call that followed a call which raised with fragments in the vault has
\* preserved fragments of its own and returned
ReturnedAfterAbort == pc = "returned" /\ after_abort /\ Len(issued) >= 1

\* C2: the k-th preserve of a conversion (k from 0) returned the token {k} and
\* its fragment is at vault position k, and still is whenever the vault is
\* looked at before the next conversion starts.
TokensDesignateFragments ==
    pc # "idle" =>
        /\ Len(issued) = Len(preserved_blobs)
        /\ \A k \in 1..Len(issued) :
              /\ issued[k].token = <<"{">> \o Dec(k - 1) \o <<"}">>
              /\ preserved_blobs[k] = issued[k].blob

\* a conversion that preserved two different fragments has returned
TwoFragmentsReturned ==
    /\ pc = "returned"
    /\ Len(issued) >= 2
    /\ issued[1].blob # issued[2].blob

\* C3: an author-typed {N} is never replaced by a preserved fragment: the
\* output holds a fragment no more often than preserve issued a token for it.
AuthorBracesNotSubstituted ==
    pc = "returned" =>
        \A k \in 1..Len(issued) :
            Count(result, issued[k].blob)
                <= Cardinality({h \in 1..Len(issued) : issued[h].blob = issued[k].blob})

\* the text t holds a token {N} with N >= n
HasDanglingToken(t, n) ==
    \E i \in 1..Len(t) : \E j \in (i + 2)..Len(t) :
        /\ t[i] = "{"
        /\ t[j] = "}"
        /\ \A k \in (i + 1)..(j - 1) : IsDigit(t[k])
        /\ ToNat(SubSeq(t, i + 1, j - 1)) >= n

\* C4: when the text after the last rule holds a token {N} with N not below
\* the number of vault entries, the call does not return.
DanglingTokenFails ==
    pc = "returned" => ~HasDanglingToken(Strip(text), Len(preserved_blobs))

\* the trimmed content of the first fenced block of d, <<>> when d has none
FirstFenceBody(d) ==
    LET i == FindFrom(d, 1, <<BT, BT, BT>>)
        j == IF i = 0 THEN 0 ELSE FindFrom(d, i + 4, <<BT, BT, BT>>)
    IN  IF j = 0 THEN <<>> ELSE Strip(SubSeq(d, i + 3, j - 1))

\* C5: the trimmed content of a fenced block is in the output, character for
\* character, inside its code container.
FencedContentUnchanged ==
    (pc = "returned" /\ FirstFenceBody(doc) # <<>>) =>
        Contains(result, <<">">> \o FirstFenceBody(doc)
                         \o <<"<", "/", "t", "e", "x", "t", "a", "r", "e", "a", ">">>)

(***************************************************************************)
(* Lists (process SpecLists).  The documents hold no list tags of their    *)
(* own, so every container and item in a text was emitted by a list rule.  *)
(***************************************************************************)
IsUnorderedLine(l) == Len(l) >= 3 /\ l[1] \in {"-", "*"} /\ l[2] = " "

IsOrderedLine(l) ==
    \E n \in 1..Len(l) :
        /\ \A k \in 1..n : IsDigit(l[k])
        /\ Len(l) >= n + 3
        /\ l[n + 1] = ")"
        /\ l[n + 2] = " "

\* lines a..b of L are unordered items, with an empty line before and after
UnorderedRun(L, a, b) ==
    /\ 1 < a /\ a <= b /\ b < Len(L)
    /\ L[a - 1] = <<>>
    /\ L[b + 1] = <<>>
    /\ \A k \in a..b : IsUnorderedLine(L[k])

RECURSIVE ItemElements(_, _, _)
ItemElements(L, a, b) ==
    IF a > b THEN <<>>
    ELSE <<"<", "l", "i", ">">> \o SubSeq(L[a], 3, Len(L[a])) \o <<"<", "/", "l", "i", ">", NL>>
         \o ItemElements(L, a + 1, b)

OneList(L, a, b) ==
    <<"<", "u", "l", ">", NL>> \o ItemElements(L, a, b) \o <<"<", "/", "u", "l", ">">>

\* C6: a run of n >= 1 unordered item lines with an empty line before it and
\* an empty line after it is rendered as one <ul>, its n <li> in source order
\* and one </ul>, nothing in between; when the document has no other item line
\* the output has exactly one <ul>, n <li> and one </ul>.
RunIsOneList ==
    pc = "returned" =>
        LET L == SplitLines(doc)
        IN  \A a \in 1..Len(L) : \A b \in a..Len(L) :
                UnorderedRun(L, a, b) =>
                    /\ Contains(result, OneList(L, a, b))
                    /\ (\A k \in (1..Len(L)) \ (a..b) :
                            ~IsUnorderedLine(L[k]) /\ ~IsOrderedLine(L[k]))
                        => /\ Count(result, <<"<", "u", "l", ">">>) = 1
                           /\ Count(result, <<"<", "/", "u", "l", ">">>) = 1
                           /\ Count(result, <<"<", "l", "i", ">">>) = b - a + 1

\* a document with a run of three unordered items between empty lines returned
ThreeItemRunReturned ==
    /\ pc = "returned"
    /\ \E a \in 1..Len(SplitLines(doc)) : UnorderedRun(SplitLines(doc), a, a + 2)

ListRules == {"unordered_list_item", "ordered_list_item"}

OpenTag(K) == IF K = "unordered_list_item" THEN <<"<", "u", "l", ">">> ELSE <<"<", "o", "l", ">">>

CloseTag(K) ==
    IF K = "unordered_list_item" THEN <<"<", "/", "u", "l", ">">> ELSE <<"<", "/", "o", "l", ">">>

\* the length of the item marker of kind K at position q of t, 0 when none
MarkerLen(t, q, K) ==
    IF K = "unordered_list_item"
    THEN (IF q + 1 <= Len(t) /\ t[q] \in {"-", "*"} /\ t[q + 1] = " " THEN 2 ELSE 0)
    ELSE LET D == {n \in 1..(Len(t) - q) :
                       /\ \A k \in q..(q + n - 1) : IsDigit(t[k])
                       /\ t[q + n] = ")"
                       /\ q + n + 1 <= Len(t)
                       /\ t[q + n + 1] = " "}
         IN  IF D = {} THEN 0 ELSE Max(D) + 2

\* the newline at p begins an item line of kind K
ItemStarts(t, K) ==
    {p \in 1..Len(t) :
        /\ t[p] = NL
        /\ MarkerLen(t, p + 1, K) > 0
        /\ p + MarkerLen(t, p + 1, K) + 1 <= Len(t)
        /\ t[p + MarkerLen(t, p + 1, K) + 1] # NL}

\* the newline that ends the line begun by the newline at p
LineEndAfter(t, p) ==
    LET E == {e \in (p + 1)..Len(t) : t[e] = NL}
    IN  IF E = {} THEN Len(t) + 1 ELSE Min(E)

PrevIsItem(t, p, K) == \E q \in ItemStarts(t, K) : LineEndAfter(t, q) = p

NextIsItem(t, p, K) == LineEndAfter(t, p) \in ItemStarts(t, K)

\* every maximal run of item lines of kind K in t has an empty line before it
\* and an empty line after it
Delimited(t, K) ==
    \A p \in ItemStarts(t, K) :
        /\ ~PrevIsItem(t, p, K) => (p > 1 /\ t[p - 1] = NL)
        /\ ~NextIsItem(t, p, K) =>
              (LineEndAfter(t, p) < Len(t) /\ t[LineEndAfter(t, p) + 1] = NL)

\* openings minus closings of kind K before position j of t
Depth(t, j, K) ==
    Cardinality({i \in 1..(j - 1) : StartsAt(t, i, OpenTag(K))})
        - Cardinality({i \in 1..(j - 1) : StartsAt(t, i, CloseTag(K))})

\* the items of t that are not between an opening of kind K and its closing
ItemsOutside(t, K) ==
    {j \in 1..Len(t) :
        /\ StartsAt(t, j, <<"<", "l", "i", ">">>)
        /\ \/ Depth(t, j, K) # 1
           \/ ~\E i \in (j + 1)..Len(t) : StartsAt(t, i, CloseTag(K))}

\* rule K rewrote t into t2 with balanced containers: as many openings as
\* closings, never one container inside another, no item added outside a
\* container
EmitsBalanced(t, t2, K) ==
    /\ Count(t2, OpenTag(K)) - Count(t, OpenTag(K))
           = Count(t2, CloseTag(K)) - Count(t, CloseTag(K))
    /\ \A j \in 1..(Len(t2) + 1) : Depth(t2, j, K) \in {0, 1}
    /\ Cardinality(ItemsOutside(t2, K)) <= Cardinality(ItemsOutside(t, K))

\* the item elements of the run of kind K that the newline at p begins
RECURSIVE RunElements(_, _, _)
RunElements(t, p, K) ==
    IF p \notin ItemStarts(t, K) THEN <<>>
    ELSE <<"<", "l", "i", ">">>
         \o SubSeq(t, p + MarkerLen(t, p + 1, K) + 1, LineEndAfter(t, p) - 1)
         \o <<"<", "/", "l", "i", ">", NL>>
         \o RunElements(t, LineEndAfter(t, p), K)

\* C10 as claimed: on every document the list rules emit balanced containers.
ListsAlwaysBalanced ==
    [][(pc = "rules" /\ rules[ri] \in ListRules)
          => EmitsBalanced(text, text', rules[ri])]_vars

\* C10 as amended: a list rule emits balanced containers when every maximal
\* run of its item lines in the text it is applied to has an empty line before
\* it and an empty line after it: each run becomes one opening, its items in
\* order and one closing, and nothing else is added.
DelimitedListsBalanced ==
    [][(pc = "rules" /\ rules[ri] \in ListRules /\ Delimited(text, rules[ri]))
          => LET K == rules[ri]
                 Firsts == {p \in ItemStarts(text, K) : ~PrevIsItem(text, p, K)}
             IN  /\ EmitsBalanced(text, text', K)
                 /\ Count(text', <<"<", "l", "i", ">">>) - Count(text, <<"<", "l", "i", ">">>)
                        = Cardinality(ItemStarts(text, K))
                 /\ Count(text', OpenTag(K)) - Count(text, OpenTag(K)) = Cardinality(Firsts)
                 /\ \A p \in Firsts :
                        Contains(text', <<NL>> \o OpenTag(K) \o <<NL>>
                                        \o RunElements(text, p, K) \o CloseTag(K))]_vars

\* both list rules have rewritten a document whose runs of both kinds are
\* delimited, and the text holds a list of each kind
BothListsEmitted ==
    /\ pc = "rules"
    /\ rules[ri] = "inline"
    /\ \A K \in ListRules : Delimited(<<NL>> \o doc \o <<NL>>, K)
    /\ \A K \in ListRules :
          Contains(text, OpenTag(K) \o <<NL, "<", "l", "i", ">">>) /\ Contains(text, CloseTag(K))

(***************************************************************************)
(* Inline resources (process SpecResource).                                *)
(***************************************************************************)
\* the path of the first inline reference ![title](path) of d, <<>> when none
InlinePath(d) ==
    LET i == FindFrom(d, 1, <<"!", "[">>)
        j == IF i = 0 THEN 0 ELSE FindFrom(d, i + 2, <<"]", "(">>)
        k == IF j = 0 THEN 0 ELSE FindChar(d, j + 2, ")")
    IN  IF k = 0 THEN <<>> ELSE SubSeq(d, j + 2, k - 1)

\* what follows the last dot of the path, <<>> when it has no dot
Extension(path) ==
    LET D == {k \in 1..Len(path) : path[k] = "."}
    IN  IF D = {} THEN <<>> ELSE SubSeq(path, Max(D) + 1, Len(path))

SupportedExtensions ==
    { <<"p", "n", "g">>, <<"j", "p", "g">>, <<"j", "p", "e", "g">>, <<"g", "i", "f">>,
      <<"s", "v", "g">>, <<"p", "y">>, <<"j", "s">> }

\* C7: a document with an inline reference whose extension is none of png,
\* jpg, jpeg, gif, svg, py, js (in any case) never gets past the inline rule:
\* no later rule is applied and nothing is returned.
UnsupportedExtensionAborts ==
    (InlinePath(doc) # <<>> /\ Lower(Extension(InlinePath(doc))) \notin SupportedExtensions)
        => /\ pc \notin {"format", "returned"}
           /\ pc \in {"rules", "raised"} =>
                 \A k \in 1..(ri - 1) : rules[k] # "inline"

(***************************************************************************)
(* Emphasis and code spans (process SpecInline).                           *)
(***************************************************************************)
Letters == {ascii_lowercase[k] : k \in 1..Len(ascii_lowercase)}

\* d has a ** at j and the next ** at e, letters in between, and no star
\* earlier on the line
FirstBoldSpan(d, j, e) ==
    /\ StartsAt(d, j, <<"*", "*">>)
    /\ e > j + 2
    /\ StartsAt(d, e, <<"*", "*">>)
    /\ \A k \in (j + 2)..(e - 1) : d[k] \in Letters
    /\ \A k \in 1..(j - 1) : d[k] = "*" => \E m \in k..(j - 1) : d[m] = NL

RuleIndex(name) == CHOOSE k \in 1..Len(rules) : rules[k] = name

\* C8: bold is applied before italics, so the line **bold** and *italic*
\* renders as <b>bold</b> and <i>italic</i>, and a **x** span that opens with
\* the first stars of its line is rendered as <b>x</b>, not as italics.
BoldBeforeItalics ==
    /\ RuleIndex("bold") < RuleIndex("italics")
    /\ (pc = "rules" /\ rules[ri] = "italics") =>
          (Contains(doc, <<"*", "*", "a", "*", "*">>) => Contains(text, <<"<", "b", ">">>))
    /\ (pc = "returned" /\ doc = BoldAndItalic) =>
          result = <<"<", "p", ">", "<", "b", ">", "b", "o", "l", "d", "<", "/", "b", ">",
                     " ", "a", "n", "d", " ", "<", "i", ">", "i", "t", "a", "l", "i", "c",
                     "<", "/", "i", ">", "<", "/", "p", ">", NL>>
    /\ pc = "returned" =>
          \A j \in 1..Len(doc) : \A e \in j..Len(doc) :
              FirstBoldSpan(doc, j, e) =>
                  Contains(result, <<"<", "b", ">">> \o SubSeq(doc, j + 2, e - 1)
                                   \o <<"<", "/", "b", ">">>)

\* the line **bold** and *italic* has been converted
BoldAndItalicReturned ==
    /\ pc = "returned"
    /\ doc = BoldAndItalic
    /\ Contains(result, <<"<", "i", ">">>)

\* the text of the first code span of d: what stands between the first
\* backtick and the next one, <<>> when there is no such pair or it is empty
FirstCodeSpan(d) ==
    LET i == FindChar(d, 1, BT)
        j == IF i = 0 THEN 0 ELSE FindChar(d, i + 1, BT)
    IN  IF j = 0 \/ \E k \in (i + 1)..(j - 1) : d[k] = NL
        THEN <<>>
        ELSE SubSeq(d, i + 1, j - 1)

\* C9: the text between single backticks is in the output as <code>, that
\* exact text, </code>.
CodeSpanVerbatim ==
    (pc = "returned" /\ FirstCodeSpan(doc) # <<>>) =>
        Contains(result, <<"<", "c", "o", "d", "e", ">">> \o FirstCodeSpan(doc)
                         \o <<"<", "/", "c", "o", "d", "e", ">">>)

====
